---------------------------- MODULE Spec2Model ----------------------------
(***************************************************************************)
(* A model of crawl.py: the HTTPReq transport wrapper and the CrawlSite    *)
(* crawler (rate limiter, robots gate, page cache / frontier, crawl loop,  *)
(* link extraction and session store).                                     *)
(*                                                                         *)
(* Strings are sequences of one-character strings, so that startswith,     *)
(* lstrip, replace and urlparse are computed character by character.       *)
(* Time is an integer clock; one unit stands for one second.               *)
(*                                                                         *)
(* An execution is a first run of the program, which finds no session      *)
(* file, and a second run, later and with its own options, which finds     *)
(* what the first one left.  A run may be ended by SIGINT; the second run  *)
(* follows a first run that ended by itself.                               *)
(***************************************************************************)
EXTENDS Integers, Sequences, FiniteSets, TLC

(***************************************************************************)
(* Bounds of the model.                                                    *)
(***************************************************************************)
\* the pause between two runs is none, one cache limit or MaxIdle cache
\* limits long
MaxIdle == 2
\* how many events of an execution are out of the usual: a request that is
\* not answered with 200 and HTML content in no measurable time, or a SIGINT
MaxFaults == 1
\* the time, in seconds, a slow GET of a page and the parsing of its answer
\* take
MaxElapsed == 1
\* the positive cache limit of the runs that do not pass --no-cache
\* (the default of 86400 seconds, scaled down to a minute, which is still
\* longer than a run of the modelled site)
CacheLimit == 60

(***************************************************************************)
(* Python values.                                                          *)
(***************************************************************************)
\* None is the empty sequence and a value x that may be None is <<x>>
None == <<>>
Some(x) == <<x>>

\* str.startswith
StartsWith(s, p) == Len(s) >= Len(p) /\ SubSeq(s, 1, Len(p)) = p

\* s[n:]
Drop(s, n) == SubSeq(s, n + 1, Len(s))

\* str.find, 1-based; 0 when the character does not occur
Find(s, c) ==
    IF \E i \in 1..Len(s) : s[i] = c
    THEN CHOOSE i \in 1..Len(s) : s[i] = c /\ \A j \in 1..(i - 1) : s[j] # c
    ELSE 0

\* the first position of any character of cs, or Len(s) + 1
FindAny(s, cs) ==
    IF \E i \in 1..Len(s) : s[i] \in cs
    THEN CHOOSE i \in 1..Len(s) : s[i] \in cs /\ \A j \in 1..(i - 1) : s[j] \notin cs
    ELSE Len(s) + 1

\* the last position of the character, or 0
RFind(s, c) ==
    IF \E i \in 1..Len(s) : s[i] = c
    THEN CHOOSE i \in 1..Len(s) : s[i] = c /\ \A j \in (i + 1)..Len(s) : s[j] # c
    ELSE 0

\* str.lstrip(chars): drops every leading character that is in the set
RECURSIVE lstrip(_, _)
lstrip(s, cs) ==
    IF s # <<>> /\ Head(s) \in cs THEN lstrip(Tail(s), cs) ELSE s

\* str.replace(sub, ''): removes every occurrence of sub, left to right
RECURSIVE replace_with_empty(_, _)
replace_with_empty(s, sub) ==
    IF s = <<>> \/ sub = <<>> THEN s
    ELSE IF StartsWith(s, sub) THEN replace_with_empty(Drop(s, Len(sub)), sub)
    ELSE <<Head(s)>> \o replace_with_empty(Tail(s), sub)

(***************************************************************************)
(* The crawl's host and the strings the code builds from it.               *)
(***************************************************************************)
\* self.host: the site given with --site
host == <<"h">>

HTTPS == <<"h", "t", "t", "p", "s", ":">>
SLASHES == <<"/", "/">>

\* f'https://{self.host}'
host_prefix == HTTPS \o SLASHES \o host

\* f'https://{self.host}/'
base_url == host_prefix \o <<"/">>

(***************************************************************************)
(* urllib.parse.urlparse, for the characters the model's strings use.      *)
(***************************************************************************)
Letters == {"a", "b", "e", "h", "m", "p", "q", "s", "t", "x"}
SchemeChars == Letters \cup {"+", "-", "."}

urlparse(url) ==
    LET i == Find(url, ":")
        has_scheme == /\ i > 1
                      /\ url[1] \in Letters
                      /\ \A k \in 1..(i - 1) : url[k] \in SchemeChars
        scheme == IF has_scheme THEN SubSeq(url, 1, i - 1) ELSE <<>>
        r1 == IF has_scheme THEN Drop(url, i) ELSE url
        has_netloc == StartsWith(r1, SLASHES)
        r1b == Drop(r1, 2)
        n == FindAny(r1b, {"/", "?", "#"})
        netloc == IF has_netloc THEN SubSeq(r1b, 1, n - 1) ELSE <<>>
        r2 == IF has_netloc THEN Drop(r1b, n - 1) ELSE r1
        f == Find(r2, "#")
        fragment == IF f > 0 THEN Drop(r2, f) ELSE <<>>
        r3 == IF f > 0 THEN SubSeq(r2, 1, f - 1) ELSE r2
        q == Find(r3, "?")
        query == IF q > 0 THEN Drop(r3, q) ELSE <<>>
        path == IF q > 0 THEN SubSeq(r3, 1, q - 1) ELSE r3
        at == RFind(netloc, "@")
        hostport == Drop(netloc, at)
        colon == Find(hostport, ":")
        hostname == IF colon > 0 THEN SubSeq(hostport, 1, colon - 1) ELSE hostport
    IN  [scheme |-> scheme, netloc |-> netloc, path |-> path,
         query |-> query, fragment |-> fragment, hostname |-> hostname]

(***************************************************************************)
(* The link handling of extract_links.                                     *)
(***************************************************************************)
\* "Fix salvageable links"
salvage(href) ==
    IF StartsWith(href, SLASHES) THEN HTTPS \o href
    ELSE IF StartsWith(href, <<"/">>) THEN host_prefix \o href
    ELSE IF StartsWith(href, <<"h", "t", "t", "p", ":">>) THEN HTTPS \o Drop(href, 5)
    ELSE IF StartsWith(href, <<"#">>) THEN host_prefix \o <<"/">> \o href
    ELSE IF StartsWith(href, <<".", ".">>) THEN host_prefix \o lstrip(href, {"."})
    ELSE href

\* a changed is_malformed: no href is rejected
is_malformed_never(parts) == FALSE

\* not all([parts.scheme, parts.netloc])
is_malformed(parts) == parts.scheme = <<>> \/ parts.netloc = <<>>

\* the href with its fragment removed: the key of the links map
strip_fragment(href, parts) ==
    IF parts.fragment # <<>>
    THEN replace_with_empty(href, <<"#">> \o parts.fragment)
    ELSE href

\* "Standardize href - No query strings or fragments"
clean_href(parts) ==
    LET href_path == IF StartsWith(parts.path, <<".", ".", "/">>)
                     THEN <<"/">> \o lstrip(parts.path, {".", "/"})
                     ELSE parts.path
    IN  HTTPS \o SLASHES
          \o (IF parts.hostname # <<>> THEN parts.hostname ELSE host)
          \o (IF href_path # <<>> THEN href_path ELSE <<"/">>)


(***************************************************************************)
(* The strings of the modelled web.                                        *)
(***************************************************************************)
\* "/a", "//hx/", "#t": an in-host page, a host that has the home host as a
\* string prefix, and an anchor of the home page
Body1 == << <<"/", "a">>, <<"/", "/", "h", "x", "/">>, <<"#", "t">> >>
\* "/", "a", "http://e/?q": the home page, a relative link without scheme
\* and host, and another host with a query string
Body2 == << <<"/">>, <<"a">>,
            <<"h", "t", "t", "p", ":", "/", "/", "e", "/", "?", "q">> >>
\* "", "m:b", "../a": an empty href, a link with a scheme and no host (as
\* mailto: links are) and a parent-relative link
Body3 == << <<>>, <<"m", ":", "b">>, <<".", ".", "/", "a">> >>

\* the page a GET of the url is answered with
body_of(url) ==
    IF url = base_url THEN Body1
    ELSE IF url = host_prefix \o <<"/", "a">> THEN Body2
    ELSE Body3

\* https://h/s, the sitemap a robots.txt may name
SitemapUrl == host_prefix \o <<"/", "s">>
\* the <loc> texts of the sitemap: "https://h/a?q"
SitemapLocs == << host_prefix \o <<"/", "a", "?", "q">> >>

\* f'https://{self.host}/robots.txt'
robots_url == host_prefix \o <<"/", "r">>

\* the pages --page may name
ConfPages == {base_url}

(***************************************************************************)
(* What urlopen does with a request: it returns a response (only a 2xx     *)
(* status comes back as a response), or raises HTTPError (any other final  *)
(* status), URLError (connection failure) or TimeoutError.                 *)
(***************************************************************************)
\* status and ctype are None or Some(value)
Outcome(kind, status, ctype, body) ==
    [kind |-> kind, status |-> status, ctype |-> ctype, body |-> body]

NoResponse == Outcome("None", None, None, <<>>)

TEXT_HTML == "text/html"
IMAGE_PNG == "image/png"

Failures ==
    { Outcome("HTTPError", Some(404), Some(TEXT_HTML), <<>>),
      Outcome("URLError", None, None, <<>>),
      Outcome("TimeoutError", None, None, <<>>) }

\* a HEAD: 200 with an HTML type
HeadUsual == { Outcome("response", Some(200), Some(TEXT_HTML), <<>>) }
\* or with another type, or without a Content-Type header, or a failure
HeadOutcomes ==
    HeadUsual
      \cup { Outcome("response", Some(200), c, <<>>) : c \in {Some(IMAGE_PNG), None} }
      \cup Failures

\* a GET of a page: 200 with the page
GetUsual(url) == { Outcome("response", Some(200), Some(TEXT_HTML), body_of(url)) }
\* or a 2xx without content, or a failure
GetOutcomes(url) ==
    GetUsual(url) \cup { Outcome("response", Some(204), None, <<>>) } \cup Failures

\* robots.txt files: no line at all; "Disallow: /a"; "Crawl-delay: 1" with
\* "Sitemap: https://h/s"
RobotsFile(lines, disallow, delay, sitemaps) ==
    [lines |-> lines, disallow |-> disallow, delay |-> delay, sitemaps |-> sitemaps]

RobotsFiles ==
    { RobotsFile(0, {}, None, <<>>),
      RobotsFile(2, { <<"/", "a">> }, None, <<>>),
      RobotsFile(3, {}, Some(1), <<SitemapUrl>>) }

\* the GET of robots.txt, of a site that serves the file f
RobotsUsual(f) == { Outcome("response", Some(200), Some("text/plain"), <<f>>) }
RobotsOutcomes(f) == RobotsUsual(f) \cup Failures

\* the GET of the sitemap
SitemapUsual == { Outcome("response", Some(200), Some("text/xml"), SitemapLocs) }
SitemapOutcomes == SitemapUsual \cup Failures

(***************************************************************************)
(* HTTPReq.send_req: the except clauses are tried in the order written,    *)
(* and the first one the exception is an instance of handles it.           *)
(***************************************************************************)
ExceptClauses == <<"URLError", "HTTPError", "TimeoutError", "Exception">>

\* isinstance(exc, cls): HTTPError is a subclass of URLError
IsInstance(kind, cls) ==
    \/ cls = kind
    \/ cls = "Exception"
    \/ kind = "HTTPError" /\ cls = "URLError"

\* what the handler of a clause returns: only the HTTPError clause returns
\* the exception (which carries the status), the others return None
clause_result(cls, o) == IF cls = "HTTPError" THEN o ELSE NoResponse

send_req(o) ==
    IF o.kind = "response" THEN o
    ELSE LET i == CHOOSE k \in 1..Len(ExceptClauses) :
                     /\ IsInstance(o.kind, ExceptClauses[k])
                     /\ \A j \in 1..(k - 1) : ~IsInstance(o.kind, ExceptClauses[j])
         IN  clause_result(ExceptClauses[i], o)

(***************************************************************************)
(* urllib.robotparser.RobotFileParser, as far as the crawler uses it.      *)
(***************************************************************************)
\* RobotFileParser(): nothing parsed yet
rp_new == [parsed |-> FALSE, disallow |-> {}, delay |-> None, sitemaps |-> <<>>]

\* rp.parse(lines), called only "if lines"
rp_parse(file) ==
    IF file.lines > 0
    THEN [parsed |-> TRUE, disallow |-> file.disallow,
          delay |-> file.delay, sitemaps |-> file.sitemaps]
    ELSE rp_new

\* rp.can_fetch(ua, url): False until a file was parsed, then the path is
\* matched against the Disallow prefixes
can_fetch(r, url) ==
    /\ r.parsed
    /\ \A d \in r.disallow : ~StartsWith(urlparse(url).path, d)

\* rp.crawl_delay(ua)
rp_crawl_delay(r) == IF r.parsed THEN r.delay ELSE None

(***************************************************************************)
(* The state.                                                              *)
(***************************************************************************)
VARIABLES
    now,           \* time.time()
    robots_txt,    \* the robots.txt file the site serves
    faults,        \* the events out of the usual so far
    run,           \* 1 in the first run of the program, 2 in the second
    mode,          \* "site" (--site) or "page" (--page)
    interrupted,   \* SIGINT was delivered to this run
    conf_page,     \* conf.page
    cache_limit,   \* self.cache_limit
    next_req,      \* self.next_req
    crawl_delay,   \* self.crawl_delay
    obey_robots,   \* self.obey_robots
    rp,            \* self.rp
    pages,         \* self.pages: url -> page record
    page_keys,     \* the keys of self.pages in insertion order
    sitemap,       \* self.sitemap
    session_file,  \* the session file on disk
    pc,            \* where the run is
    idx,           \* crawl(): idx
    crawl_pages,   \* crawl(): crawl_pages
    target_url,    \* extract_links(): target_url
    hrefs,         \* extract_links(): the anchors not yet handled
    sm_queue,      \* load_sitemap(): the sitemap urls not yet fetched
    locs,          \* load_sitemap(): the <loc> texts not yet added
    al_href,       \* add_link(): href
    ret,           \* where add_link() returns to
    waited,        \* wait() returned and no request was sent since
    last_wait,     \* when wait() last returned in this run
    last_req,      \* the last request sent
    last_outcome,  \* what urlopen did with the last request
    got,           \* the urls extract_links sent a GET for in this run
    completed,     \* the urls whose GET was answered with an HTTP status
    visited,       \* the urls a crawl() iteration took up in this run
    due,           \* those of them that were due for a GET when taken up
    extract_result \* how the last call of extract_links went

vars == << now, robots_txt, faults, run, mode, interrupted, conf_page, cache_limit, next_req, crawl_delay,
           obey_robots, rp, pages, page_keys, sitemap, session_file, pc, idx,
           crawl_pages, target_url, hrefs, sm_queue, locs, al_href, ret,
           waited, last_wait, last_req, last_outcome, got, completed, visited,
           due, extract_result >>

(***************************************************************************)
(* Page records and the tests the code makes on them.                      *)
(***************************************************************************)
\* the record add_link() creates; images, files and file_loc are left out
new_page(t, limit) ==
    [last_visit |-> t + limit, links |-> {}, malformed |-> <<>>,
     status_code |-> None, mime_type |-> Some(""), head_status |-> None]

\* a changed expired: every known page counts as expired
expired_always(rec, t, limit) == TRUE

\* add_link(): (time.time() - self.cache_limit) > last_visit
expired(rec, t, limit) == (t - limit) > rec.last_visit

\* crawl(): "Skipping cached page"
crawl_cached(rec, t) == t < rec.last_visit /\ rec.status_code # None

\* a changed extract_cached: the comparison of last_visit is turned round
extract_cached_turned(rec, t) == rec.status_code # None /\ rec.last_visit < t

\* extract_links(): "Skipping visited page"
extract_cached(rec, t) == rec.status_code # None /\ rec.last_visit > t

\* a changed mime_is_html: the type is not tested
mime_not_tested(m) == TRUE

\* 'text/html' in mime_type, for a mime_type that is a string
mime_is_html(m) == m = Some(TEXT_HTML)

\* crawl(): not crawl_url.startswith(f'https://{self.host}')
is_external(url) == ~StartsWith(url, host_prefix)

\* a changed robots_denied: the loop does not ask robots.txt
robots_not_asked(obey, r, url) == FALSE

\* crawl(): self.obey_robots and not self.rp.can_fetch(self.ua, crawl_url)
robots_denied(obey, r, url) == obey /\ ~can_fetch(r, url)

\* a changed robots_unavailable: obey_robots is left as it was
robots_unavailable_kept(obey) == obey

\* load_robots(): "self.obey_robots = False" when the request gave None
robots_unavailable(obey) == FALSE

\* a changed reread_keys: the key list of the start of the loop is kept
keys_not_reread(old, keys) == old

\* crawl(): crawl_pages = list(self.pages.keys()) after an extraction
reread_keys(old, keys) == keys

\* a changed get_failed: extract_links() does not test the response
get_failed_ignored(resp) == FALSE

\* extract_links(): "if resp is None: return"
get_failed(resp) == resp = NoResponse

\* a changed keys_after_set: the key is always put at the end of the keys
keys_appended(keys, href) == Append(keys, href)

\* add_link(): the keys of self.pages after "self.pages[href] = {...}": a
\* dict keeps a key it has where it is and puts a new one at the end
keys_after_set(keys, href) ==
    IF \E i \in 1..Len(keys) : keys[i] = href THEN keys ELSE Append(keys, href)

\* links.setdefault(href, clean_href); links is a set of <<href, clean>>
setdefault(links, href, clean) ==
    IF \E l \in links : l[1] = href THEN links ELSE links \cup {<<href, clean>>}

\* a changed sleep_until: wait() does not sleep
sleep_skipped(t, next) == t

\* wait(): the time after "if wait > 0: time.sleep(wait)"
sleep_until(t, next) == IF next - t > 0 THEN next ELSE t

(***************************************************************************)
(* The session file: json.dumps and json.loads of the values of a record.  *)
(***************************************************************************)
NoFile == <<>>

\* a changed json_dumps_value: every value is written as null
json_dumps_null(v) == <<"null">>

json_dumps_value(v) == IF v = None THEN <<"null">> ELSE <<"value", v[1]>>
json_loads_value(j) == IF j[1] = "null" THEN None ELSE Some(j[2])

json_dumps_page(rec) ==
    [last_visit |-> rec.last_visit, links |-> rec.links,
     malformed |-> rec.malformed,
     status_code |-> json_dumps_value(rec.status_code),
     mime_type |-> json_dumps_value(rec.mime_type),
     head_status |-> json_dumps_value(rec.head_status)]

json_loads_page(j) ==
    [last_visit |-> j.last_visit, links |-> j.links,
     malformed |-> j.malformed,
     status_code |-> json_loads_value(j.status_code),
     mime_type |-> json_loads_value(j.mime_type),
     head_status |-> json_loads_value(j.head_status)]

\* save_session(): data = {'host': ..., 'pages': ..., 'sitemap': ...} as
\* written to the file; keys is the order of the keys of pages
json_dumps_data(pgs, keys, sm) ==
    << [host |-> host,
        pages |-> [u \in DOMAIN pgs |-> json_dumps_page(pgs[u])],
        keys |-> keys,
        sitemap |-> sm] >>

(***************************************************************************)
(* Init: CrawlSite.__init__ of the first run, before load_session().       *)
(***************************************************************************)
CacheLimits == {0, CacheLimit}

\* self.crawl_delay = 2
DefaultCrawlDelay == 2

\* __main__: the option --page or --site, and --no-cache or --cache-limt
Options(m, p, c) ==
    /\ m \in {"site", "page"}
    /\ p \in (IF m = "page" THEN ConfPages ELSE {<<>>})
    /\ c \in CacheLimits

\* CrawlSite.__init__ at time t
construct(t) ==
    /\ next_req' = t
    /\ crawl_delay' = DefaultCrawlDelay
    /\ obey_robots' = TRUE
    /\ rp' = rp_new
    /\ pages' = <<>>
    /\ page_keys' = <<>>
    /\ sitemap' = <<>>

Init ==
    /\ now = 0
    /\ robots_txt \in RobotsFiles
    /\ faults = 0
    /\ run = 1
    /\ interrupted = FALSE
    /\ Options(mode, conf_page, cache_limit)
    /\ next_req = 0
    /\ crawl_delay = DefaultCrawlDelay
    /\ obey_robots = TRUE
    /\ rp = rp_new
    /\ pages = <<>>
    /\ page_keys = <<>>
    /\ sitemap = <<>>
    /\ session_file = NoFile
    /\ pc = "load_session"
    /\ idx = 0
    /\ crawl_pages = <<>>
    /\ target_url = <<>>
    /\ hrefs = <<>>
    /\ sm_queue = <<>>
    /\ locs = <<>>
    /\ al_href = <<>>
    /\ ret = "none"
    /\ waited = FALSE
    /\ last_wait = None
    /\ last_req = [method |-> "none", url |-> <<>>, after_wait |-> FALSE]
    /\ last_outcome = [kind |-> "None", status |-> None]
    /\ got = {}
    /\ completed = {}
    /\ visited = {}
    /\ due = {}
    /\ extract_result = "none"

(***************************************************************************)
(* Bookkeeping shared by the actions.                                      *)
(***************************************************************************)
config == << run, mode, interrupted, conf_page, cache_limit, robots_txt >>
limiter == << next_req, crawl_delay >>
robots == << obey_robots, rp >>
frontier == << pages, page_keys >>
loop == << idx, crawl_pages >>
frames == << target_url, hrefs, sm_queue, locs, al_href, ret >>
requests == << waited, last_req, last_outcome >>
history == << got, completed, visited, due, extract_result >>

\* a request is sent and urlopen does o with it
sent(method, url, o) ==
    /\ last_req' = [method |-> method, url |-> url, after_wait |-> waited]
    /\ last_outcome' = [kind |-> o.kind, status |-> o.status]
    /\ waited' = FALSE

\* what may happen to a request: <<o, e>> is what urlopen does and how long
\* it takes; a fault is another outcome than the usual one, or the usual
\* one that takes time
Answers(usual, all) ==
    { <<o, 0>> : o \in usual }
      \cup (IF faults < MaxFaults
            THEN ((all \ usual) \X {0}) \cup (usual \X {MaxElapsed})
            ELSE {})

\* the answers to a HEAD and to the requests for robots.txt and the
\* sitemap, which are short: none of them takes measurable time
QuickAnswers(usual, all) == { a \in Answers(usual, all) : a[2] = 0 }

answered(usual, a) ==
    /\ now' = now + a[2]
    /\ faults' = IF a[1] \in usual /\ a[2] = 0 THEN faults ELSE faults + 1

\* what follows load_robots() in __main__
after_robots == IF mode = "site" THEN "crawl" ELSE "extract_links"

(***************************************************************************)
(* add_link(href), up to its call of wait(): pgs is self.pages when it is  *)
(* called and back is where the caller goes on.  A new or expired href     *)
(* gets a fresh record and the HEAD probe follows; otherwise nothing       *)
(* happens.                                                                *)
(***************************************************************************)
add_link(pgs, href, back) ==
    IF href \notin DOMAIN pgs \/ expired(pgs[href], now, cache_limit)
    THEN /\ pages' = [u \in DOMAIN pgs \cup {href} |->
                        IF u = href THEN new_page(now, cache_limit) ELSE pgs[u]]
         /\ page_keys' = keys_after_set(page_keys, href)
         /\ al_href' = href
         /\ ret' = back
         /\ pc' = "add_link_wait"
    ELSE /\ pages' = pgs
         /\ page_keys' = page_keys
         /\ al_href' = al_href
         /\ ret' = ret
         /\ pc' = back

\* add_link(): head = self.head_req(href) and the lines after it
add_link_head ==
    /\ pc = "add_link_head"
    /\ \E a \in QuickAnswers(HeadUsual, HeadOutcomes) :
         LET head == send_req(a[1]) IN
         /\ sent("HEAD", al_href, a[1])
         /\ answered(HeadUsual, a)
         /\ pages' = IF head = NoResponse THEN pages
                     ELSE [pages EXCEPT ![al_href].mime_type = head.ctype,
                                        ![al_href].head_status = head.status]
    /\ pc' = ret
    /\ UNCHANGED << config, limiter, robots, page_keys, sitemap, session_file,
                    loop, frames, last_wait, history >>

(***************************************************************************)
(* wait(), called by add_link() and by extract_links().                    *)
(***************************************************************************)
wait ==
    /\ pc \in {"add_link_wait", "extract_wait"}
    /\ now' = sleep_until(now, next_req)
    /\ next_req' = now' + crawl_delay
    /\ waited' = TRUE
    /\ last_wait' = Some(now')
    /\ pc' = IF pc = "add_link_wait" THEN "add_link_head" ELSE "extract_get"
    /\ UNCHANGED << faults, config, crawl_delay, robots, frontier, sitemap, session_file,
                    loop, frames, last_req, last_outcome, history >>

(***************************************************************************)
(* load_session()                                                          *)
(***************************************************************************)
load_session ==
    /\ pc = "load_session"
    /\ IF session_file = NoFile
       THEN UNCHANGED << frontier, sitemap >>
       ELSE /\ pages' = [u \in DOMAIN session_file[1].pages |->
                            json_loads_page(session_file[1].pages[u])]
            /\ page_keys' = session_file[1].keys
            /\ sitemap' = session_file[1].sitemap
    /\ pc' = "load_robots"
    /\ UNCHANGED << now, faults, config, limiter, robots, session_file, loop, frames,
                    requests, last_wait, history >>

(***************************************************************************)
(* save_session()                                                          *)
(***************************************************************************)
save_session ==
    /\ pc = "save_session"
    /\ session_file' = json_dumps_data(pages, page_keys, sitemap)
    /\ pc' = "exit"
    /\ UNCHANGED << now, faults, config, limiter, robots, frontier, sitemap, loop, frames,
                    requests, last_wait, history >>

(***************************************************************************)
(* load_robots(), up to its call of load_sitemap()                         *)
(***************************************************************************)
load_robots ==
    /\ pc = "load_robots"
    /\ \E a \in QuickAnswers(RobotsUsual(robots_txt), RobotsOutcomes(robots_txt)) :
         LET resp == send_req(a[1]) IN
         /\ sent("GET", robots_url, a[1])
         /\ answered(RobotsUsual(robots_txt), a)
         /\ IF resp = NoResponse
            THEN /\ obey_robots' = robots_unavailable(obey_robots)
                 /\ pc' = after_robots
                 /\ UNCHANGED << rp, crawl_delay, sitemap, sm_queue >>
            ELSE /\ rp' = rp_parse(resp.body[1])
                 /\ crawl_delay' = IF rp_crawl_delay(rp') = None THEN crawl_delay
                                   ELSE rp_crawl_delay(rp')[1]
                 /\ sitemap' = IF rp'.sitemaps # <<>> THEN rp'.sitemaps ELSE sitemap
                 /\ sm_queue' = sitemap'
                 /\ pc' = "load_sitemap"
                 /\ UNCHANGED obey_robots
    /\ target_url' = IF pc' = "extract_links" THEN conf_page ELSE target_url
    /\ UNCHANGED << config, next_req, frontier, session_file, loop, hrefs, locs,
                    al_href, ret, last_wait, history >>

(***************************************************************************)
(* load_sitemap(): one pass of "for sitemapurl in map_url" up to the inner *)
(* loop.  BeautifulSoup raises TypeError when the request gave None.       *)
(***************************************************************************)
load_sitemap ==
    /\ pc = "load_sitemap"
    /\ IF sm_queue = <<>>
       THEN /\ pc' = after_robots
            /\ target_url' = IF pc' = "extract_links" THEN conf_page ELSE target_url
            /\ UNCHANGED << now, faults, sm_queue, locs, requests >>
       ELSE \E a \in QuickAnswers(SitemapUsual, SitemapOutcomes) :
              LET sitemap_raw == send_req(a[1]) IN
              /\ sent("GET", Head(sm_queue), a[1])
              /\ answered(SitemapUsual, a)
              /\ sm_queue' = Tail(sm_queue)
              /\ IF sitemap_raw = NoResponse
                 THEN /\ pc' = "TypeError"
                      /\ UNCHANGED locs
                 ELSE /\ pc' = "locs"
                      /\ locs' = sitemap_raw.body
              /\ UNCHANGED target_url
    /\ UNCHANGED << config, limiter, robots, frontier, sitemap, session_file, loop,
                    hrefs, al_href, ret, last_wait, history >>

\* load_sitemap(): one pass of "for link in soup.find_all('loc')"
sitemap_locs ==
    /\ pc = "locs"
    /\ IF locs = <<>>
       THEN /\ pc' = "load_sitemap"
            /\ UNCHANGED << frontier, locs, al_href, ret >>
       ELSE /\ locs' = Tail(locs)
            /\ add_link(pages, Head(locs), "locs")
    /\ UNCHANGED << now, faults, config, limiter, robots, sitemap, session_file, loop,
                    target_url, hrefs, sm_queue, requests, last_wait, history >>

(***************************************************************************)
(* crawl(): the seed, then "idx = 0; crawl_pages = list(self.pages.keys())"*)
(***************************************************************************)
crawl ==
    /\ pc = "crawl"
    /\ IF page_keys = <<>> /\ (~obey_robots \/ can_fetch(rp, base_url))
       THEN add_link(pages, base_url, "crawl_init")
       ELSE /\ pc' = "crawl_init"
            /\ UNCHANGED << frontier, al_href, ret >>
    /\ UNCHANGED << now, faults, config, limiter, robots, sitemap, session_file, loop,
                    target_url, hrefs, sm_queue, locs, requests, last_wait, history >>

crawl_init ==
    /\ pc = "crawl_init"
    /\ idx' = 0
    /\ crawl_pages' = page_keys
    /\ pc' = "crawl_loop"
    /\ UNCHANGED << now, faults, config, limiter, robots, frontier, sitemap, session_file,
                    frames, requests, last_wait, history >>

\* the url crawl() takes up was due for a GET: on the home host, allowed by
\* robots.txt, of an HTML type and not fresh in the cache
is_due(url) ==
    /\ urlparse(url).hostname = host
    /\ ~obey_robots \/ can_fetch(rp, url)
    /\ mime_is_html(pages[url].mime_type)
    /\ ~(pages[url].status_code # None /\ now < pages[url].last_visit)

\* crawl(): one pass of "while idx < len(crawl_pages)", up to the call of
\* extract_links(); the loop ends with 'Crawl complete' and __main__ saves
crawl_loop ==
    /\ pc = "crawl_loop"
    /\ IF idx < Len(crawl_pages)
       THEN LET crawl_url == crawl_pages[idx + 1] IN
            /\ idx' = idx + 1
            /\ visited' = visited \cup {crawl_url}
            /\ due' = IF is_due(crawl_url) THEN due \cup {crawl_url} ELSE due
            /\ IF \/ is_external(crawl_url)
                  \/ crawl_cached(pages[crawl_url], now)
                  \/ robots_denied(obey_robots, rp, crawl_url)
               THEN UNCHANGED << pc, target_url >>
               ELSE /\ pc' = "extract_links"
                    /\ target_url' = crawl_url
       ELSE /\ pc' = "save_session"
            /\ UNCHANGED << idx, target_url, visited, due >>
    /\ UNCHANGED << now, faults, config, limiter, robots, frontier, sitemap, session_file,
                    crawl_pages, hrefs, sm_queue, locs, al_href, ret, requests,
                    last_wait, got, completed, extract_result >>

(***************************************************************************)
(* extract_links(target_url)                                               *)
(***************************************************************************)
\* where extract_links() returns to, and crawl()'s re-read of the keys
extract_return(keys) ==
    IF mode = "site"
    THEN /\ pc' = "crawl_loop"
         /\ crawl_pages' = reread_keys(crawl_pages, keys)
    ELSE /\ pc' = "save_session"
         /\ crawl_pages' = crawl_pages

\* the guards before wait(): self.pages[target_url] raises KeyError for an
\* unknown url, and "'text/html' not in None" raises TypeError
extract_links ==
    /\ pc = "extract_links"
    /\ IF target_url \notin DOMAIN pages
       THEN /\ pc' = "KeyError"
            /\ UNCHANGED << crawl_pages, extract_result >>
       ELSE IF pages[target_url].mime_type = None
       THEN /\ pc' = "TypeError"
            /\ UNCHANGED << crawl_pages, extract_result >>
       ELSE IF ~mime_is_html(pages[target_url].mime_type)
       THEN /\ extract_return(page_keys)
            /\ extract_result' = "skip_mime"
       ELSE IF extract_cached(pages[target_url], now)
       THEN /\ extract_return(page_keys)
            /\ extract_result' = "skip_cached"
       ELSE /\ pc' = "extract_wait"
            /\ extract_result' = IF pages[target_url].status_code # None
                                 THEN "refetch" ELSE "fetch"
            /\ UNCHANGED crawl_pages
    /\ UNCHANGED << now, faults, config, limiter, robots, frontier, sitemap, session_file,
                    idx, frames, requests, last_wait, got, completed, visited, due >>

\* resp = self.get_req(target_url) and the lines up to "for link in ..."
extract_get ==
    /\ pc = "extract_get"
    /\ \E a \in Answers(GetUsual(target_url), GetOutcomes(target_url)) :
         LET resp == send_req(a[1]) IN
         /\ sent("GET", target_url, a[1])
         /\ answered(GetUsual(target_url), a)
         /\ got' = got \cup {target_url}
         /\ completed' = IF a[1].status # None THEN completed \cup {target_url}
                         ELSE completed
         /\ IF get_failed(resp)
            THEN /\ extract_return(page_keys)
                 /\ UNCHANGED << pages, hrefs >>
            ELSE /\ pages' = [pages EXCEPT
                                ![target_url].last_visit = now' + cache_limit,
                                ![target_url].status_code = resp.status]
                 /\ IF resp.status # Some(200)
                    THEN /\ extract_return(page_keys)
                         /\ UNCHANGED hrefs
                    ELSE /\ hrefs' = resp.body
                         /\ pc' = "links"
                         /\ UNCHANGED crawl_pages
    /\ UNCHANGED << config, limiter, robots, page_keys, sitemap, session_file, idx,
                    target_url, sm_queue, locs, al_href, ret, last_wait, visited,
                    due, extract_result >>

\* one pass of "for link in soup.find_all('a')"
extract_link ==
    /\ pc = "links"
    /\ IF hrefs = <<>>
       THEN /\ extract_return(page_keys)
            /\ UNCHANGED << frontier, hrefs, al_href, ret >>
       ELSE LET raw == Head(hrefs)
                href == salvage(raw)
                parts == urlparse(href)
            IN  /\ hrefs' = Tail(hrefs)
                /\ UNCHANGED crawl_pages
                /\ IF raw = <<>>
                   THEN /\ pc' = "links"
                        /\ UNCHANGED << frontier, al_href, ret >>
                   ELSE IF is_malformed(parts)
                   THEN /\ pages' = [pages EXCEPT ![target_url].malformed =
                                        Append(@, href)]
                        /\ pc' = "links"
                        /\ UNCHANGED << page_keys, al_href, ret >>
                   ELSE add_link(
                          [pages EXCEPT ![target_url].links =
                              setdefault(@, strip_fragment(href, parts),
                                         clean_href(parts))],
                          clean_href(parts), "links")
    /\ UNCHANGED << now, faults, config, limiter, robots, sitemap, session_file, idx,
                    target_url, sm_queue, locs, requests, last_wait, history >>

(***************************************************************************)
(* SIGINT: the handler clean_shutdown() saves the session and calls        *)
(* sys.exit(0), which raises SystemExit where the program was interrupted. *)
(* The bare "except:" around urlparse(href) in extract_links() catches     *)
(* that exception like any other, logs and goes on with the next link;     *)
(* everywhere else it ends the process.                                    *)
(***************************************************************************)
Exceptions == {"KeyError", "TypeError"}

\* the program is inside "try: parts = urlparse(href)"
in_bare_except == pc = "links" /\ hrefs # <<>> /\ Head(hrefs) # <<>>

clean_shutdown ==
    /\ pc \notin {"exit"} \cup Exceptions
    /\ ~interrupted
    /\ faults < MaxFaults
    /\ faults' = faults + 1
    /\ interrupted' = TRUE
    /\ session_file' = json_dumps_data(pages, page_keys, sitemap)
    /\ \E caught \in (IF in_bare_except THEN {TRUE, FALSE} ELSE {FALSE}) :
         IF caught
         THEN /\ hrefs' = Tail(hrefs)
              /\ pc' = "links"
         ELSE /\ pc' = "exit"
              /\ UNCHANGED hrefs
    /\ UNCHANGED << now, robots_txt, run, mode, conf_page, cache_limit,
                    limiter, robots, frontier, sitemap, loop, target_url,
                    sm_queue, locs, al_href, ret, requests, last_wait, history >>

(***************************************************************************)
(* The second run of the program: __main__ starts again, later, with its   *)
(* own options, and finds the session file the first run left, if any.     *)
(***************************************************************************)
restart ==
    /\ pc \in {"exit"} \cup Exceptions
    /\ run = 1
    /\ ~interrupted
    /\ run' = 2
    /\ interrupted' = FALSE
    /\ Options(mode', conf_page', cache_limit')
    /\ \E d \in {0, 1, MaxIdle} : now' = now + d * CacheLimit
    /\ construct(now')
    /\ pc' = "load_session"
    /\ idx' = 0
    /\ crawl_pages' = <<>>
    /\ target_url' = <<>>
    /\ hrefs' = <<>>
    /\ sm_queue' = <<>>
    /\ locs' = <<>>
    /\ al_href' = <<>>
    /\ ret' = "none"
    /\ waited' = FALSE
    /\ last_wait' = None
    /\ last_req' = [method |-> "none", url |-> <<>>, after_wait |-> FALSE]
    /\ last_outcome' = [kind |-> "None", status |-> None]
    /\ got' = {}
    /\ visited' = {}
    /\ due' = {}
    /\ extract_result' = "none"
    /\ UNCHANGED << robots_txt, faults, session_file, completed >>

\* a step of the running program
step ==
    \/ load_session
    \/ load_robots
    \/ load_sitemap
    \/ sitemap_locs
    \/ crawl
    \/ crawl_init
    \/ crawl_loop
    \/ extract_links
    \/ wait
    \/ extract_get
    \/ extract_link
    \/ add_link_head
    \/ save_session

Next ==
    \/ load_session
    \/ load_robots
    \/ load_sitemap
    \/ sitemap_locs
    \/ crawl
    \/ crawl_init
    \/ crawl_loop
    \/ extract_links
    \/ wait
    \/ extract_get
    \/ extract_link
    \/ add_link_head
    \/ save_session
    \/ clean_shutdown
    \/ restart

Spec == Init /\ [][Next]_vars

\* the interpreter goes on with the next statement as long as there is one:
\* sleeps and requests with a timeout end, and nothing else waits
FairSpec == Spec /\ WF_vars(step)

(***************************************************************************)
(* The claims.                                                             *)
(***************************************************************************)
\* extract_links is about to run its guards on a page it knows
at_extract == pc = "extract_links" /\ target_url \in DOMAIN pages

\* the step is the delivery of SIGINT
sigint == ~interrupted /\ interrupted'

\* C1: with a cache limit C > 0, extract_links on a page whose GET was
\* answered (status_code set, last_visit = t + C) is a no-op strictly before
\* t + C: no request, the page records unchanged; after t + C it goes on to
\* wait() and then sends the GET for that page (unless SIGINT ends the run).
C1_CachedExtract ==
    [][ sigint \/
        /\ (at_extract /\ cache_limit > 0
              /\ pages[target_url].status_code # None)
           => /\ now < pages[target_url].last_visit
                   => /\ pc' # "extract_wait"
                      /\ pages' = pages
                      /\ last_req' = last_req
                      /\ got' = got
              /\ now > pages[target_url].last_visit => pc' = "extract_wait"
        /\ (pc = "extract_wait" /\ pc' # pc) => pc' = "extract_get"
        /\ (pc = "extract_get" /\ pc' # pc)
           => last_req' = [method |-> "GET", url |-> target_url, after_wait |-> TRUE]
      ]_vars

\* C1 witness: a run with C > 0 called extract_links on a page that was
\* fetched and is still fresh, and it returned without a request
C1_Witness ==
    /\ cache_limit > 0
    /\ extract_result = "skip_cached"
    /\ pc = "save_session"
    /\ last_req.url = robots_url

\* a second case of C1: a page fetched before is fetched again after t + C
C1_RefetchReached ==
    /\ cache_limit > 0
    /\ extract_result = "refetch"
    /\ last_req.method = "GET" /\ last_req.url = target_url

\* C2 (as claimed): with cache_limit = 0 every call of extract_links on an
\* HTML-typed page goes on to the GET, whatever last_visit it holds.
C2_NoCacheAlwaysFetches ==
    [][ (at_extract /\ cache_limit = 0 /\ ~sigint
           /\ mime_is_html(pages[target_url].mime_type))
        => pc' = "extract_wait" ]_vars

\* C3: during crawl(), with obey_robots on, no GET goes to a url that
\* can_fetch refuses.
C3_RobotsDeniedNeverFetched ==
    (mode = "site" /\ obey_robots) => \A u \in got : can_fetch(rp, u)

\* C3 witness: a crawl with obey_robots on ended; it took up a url that
\* can_fetch refuses, fetched other pages and not that one
C3_Witness ==
    /\ mode = "site" /\ obey_robots /\ pc = "save_session"
    /\ got # {}
    /\ \E u \in visited : ~can_fetch(rp, u) /\ u \notin got

\* C4 (as claimed): crawl() sends no GET to a url whose host is not the
\* home host, also when that host has the home host as a string prefix.
C4_OtherHostsNeverFetched ==
    mode = "site" => \A u \in got : urlparse(u).hostname = host

\* C5 (as claimed): every request is sent right after a return of wait().
C5_WaitBeforeEveryRequest ==
    last_req.method # "none" => last_req.after_wait

\* a step in which wait() returns
wait_returns ==
    /\ pc \in {"add_link_wait", "extract_wait"}
    /\ pc' \in {"add_link_head", "extract_get"}

\* C6: wait() returns at or after the earliest-next-request time and sets
\* that time to now + crawl_delay; two returns of wait() in a run are at
\* least crawl_delay apart, and the time never decreases within a run.
C6_WaitSpacing ==
    [][ /\ wait_returns
           => /\ now' >= next_req
              /\ next_req' = now' + crawl_delay
              /\ last_wait # None => now' - last_wait[1] >= crawl_delay
        /\ run' = run => next_req' >= next_req
      ]_vars

\* C6 witness: wait() returned a second time in a run, after a sleep
C6_Witness ==
    /\ waited /\ last_req.after_wait
    /\ last_wait = Some(now) /\ next_req = now + crawl_delay
    /\ crawl_delay > 0

\* C7 (as claimed): a page has a status_code exactly if a GET for its url
\* was answered with an HTTP status, 2xx or not.
C7_StatusIffAnswered ==
    \A u \in DOMAIN pages : (pages[u].status_code # None) <=> (u \in completed)

\* the while loop of crawl() has nothing left
loop_ended == mode = "site" /\ pc = "crawl_loop" /\ idx = Len(crawl_pages)

\* C8 (as claimed): crawl() terminates: once called, its index reaches the
\* length of the key list.
C8_CrawlTerminates == (pc = "crawl") ~> loop_ended

\* C9: when crawl() has ended, every key of the frontier was taken up by
\* an iteration, and every url that was due for a GET when it was taken
\* up (home host, allowed, HTML, not fresh) had its GET sent.
C9_AllTakenUp ==
    (mode = "site" /\ pc = "save_session")
       => /\ \A u \in DOMAIN pages : u \in visited
          /\ due \subseteq got

\* C9 witness: the crawl ended after it fetched a page it had discovered
\* in this run
C9_Witness ==
    /\ mode = "site" /\ pc = "save_session" /\ run = 1
    /\ Cardinality(got) >= 2
    /\ Cardinality(visited) >= 4

\* C10 (as claimed): a GET answered with a non-2xx status comes back as a
\* response: its status is recorded, no link is handled, and the loop goes on.
C10_ErrorStatusRecorded ==
    [][ (pc = "extract_get" /\ ~waited' /\ last_outcome'.kind = "HTTPError")
        => /\ pages'[target_url].status_code = last_outcome'.status
           /\ page_keys' = page_keys
           /\ pc' = IF mode = "site" THEN "crawl_loop" ELSE "save_session"
      ]_vars

\* urlopen raised for a timeout or a failure of the connection
no_answer == last_outcome'.kind \in {"URLError", "TimeoutError"}

\* C11: a HEAD or GET of a frontier url that times out or fails at the
\* connection records nothing: the page records stay as they were (a page
\* never fetched keeps status_code None), the request is not sent again but
\* control goes back to the caller, and crawl() goes on with the next entry.
C11_FailedRequestSkipped ==
    [][ /\ (pc = "extract_get" /\ ~waited' /\ no_answer)
           => /\ pages' = pages
              /\ pc' = (IF mode = "site" THEN "crawl_loop" ELSE "save_session")
              /\ idx' = idx
              /\ mode = "site" => crawl_pages' = page_keys
        /\ (pc = "add_link_head" /\ ~waited' /\ no_answer)
           => /\ pages' = pages
              /\ pages'[al_href].status_code = None
              /\ pc' = ret
              /\ pc' \in {"links", "locs", "crawl_init"}
      ]_vars

\* C11 witness: the GET of a page failed, the page has no status_code, and
\* crawl() took up the next entry of the frontier
C11_Witness ==
    /\ mode = "site" /\ pc = "extract_links"
    /\ last_req.method = "GET" /\ last_req.url # target_url
    /\ last_outcome.kind \in {"URLError", "TimeoutError"}
    /\ last_req.url \in DOMAIN pages
    /\ pages[last_req.url].status_code = None
    /\ crawl_pages[idx] = target_url

\* the step sends a request
sends_request ==
    \/ pc \in {"load_robots", "add_link_head", "extract_get"} /\ pc' # pc
    \/ pc = "load_sitemap" /\ sm_queue # <<>> /\ pc' # pc

\* C12 (as claimed): when SIGINT is delivered the session is saved and the
\* process exits, and no request is sent after it in that run.
C12_InterruptStopsRequests ==
    [][ /\ (~interrupted /\ interrupted')
           => /\ session_file' = json_dumps_data(pages, page_keys, sitemap)
              /\ pc' = "exit"
        /\ (interrupted /\ interrupted') => ~sends_request
      ]_vars

\* C13: when the request for robots.txt gives no response, obey_robots is
\* off for the rest of the run and crawl_delay is the default of 2 seconds;
\* with obey_robots off crawl() adds the seed and passes every url of the
\* home host that is not fresh in the cache on to extract_links.
C13_RobotsFailOpen ==
    [][ sigint \/
        /\ (pc = "load_robots" /\ pc' # pc /\ last_outcome'.kind # "response")
           => /\ ~obey_robots'
              /\ crawl_delay' = 2
              /\ pc' = after_robots
        /\ (run' = run /\ ~obey_robots)
           => /\ ~obey_robots'
              /\ crawl_delay' = 2
        /\ (~obey_robots /\ pc = "crawl" /\ pages = <<>> /\ pc' # pc)
           => base_url \in DOMAIN pages'
        /\ (~obey_robots /\ pc = "crawl_loop" /\ idx < Len(crawl_pages) /\ pc' # pc)
           => LET crawl_url == crawl_pages[idx + 1] IN
              (StartsWith(crawl_url, host_prefix)
                 /\ ~(now < pages[crawl_url].last_visit
                        /\ pages[crawl_url].status_code # None))
              => pc' = "extract_links" /\ target_url' = crawl_url
      ]_vars

\* C13 witness: the site serves a robots.txt that disallows a path, the
\* request for it failed, and the crawl fetched a url under that path
C13_Witness ==
    /\ mode = "site" /\ ~obey_robots /\ crawl_delay = 2
    /\ last_outcome.kind = "response"
    /\ \E u \in got : \E d \in robots_txt.disallow : StartsWith(urlparse(u).path, d)

\* C14: what save_session writes reads back with the status_code and the
\* last_visit of every record, load_session makes exactly that the frontier
\* of the next run, and a crawl() of that run with the default cache limit
\* sends no GET for a url whose status_code is set and whose last_visit is
\* still ahead.
C14_SessionRoundTrip ==
    [][ /\ session_file' # session_file
           => /\ DOMAIN session_file'[1].pages = DOMAIN pages
              /\ \A u \in DOMAIN pages :
                   LET rec == json_loads_page(session_file'[1].pages[u]) IN
                   /\ rec.status_code = pages[u].status_code
                   /\ rec.last_visit = pages[u].last_visit
        /\ (pc = "load_session" /\ pc' = "load_robots" /\ session_file # NoFile)
           => /\ DOMAIN pages' = DOMAIN session_file[1].pages
              /\ page_keys' = session_file[1].keys
              /\ \A u \in DOMAIN pages' :
                   pages'[u] = json_loads_page(session_file[1].pages[u])
        /\ (run = 2 /\ mode = "site" /\ cache_limit = CacheLimit
              /\ pc = "extract_get" /\ ~waited')
           => ~(pages[target_url].status_code # None
                  /\ now < pages[target_url].last_visit)
      ]_vars

\* C14 witness: a crawl() with the default cache limit ran on a reloaded
\* session, took up a fetched page whose last_visit is ahead and sent no GET
C14_Witness ==
    /\ run = 2 /\ mode = "site" /\ cache_limit = CacheLimit
    /\ pc = "save_session" /\ session_file # NoFile
    /\ got = {}
    /\ \E u \in visited \cap DOMAIN session_file[1].pages :
         /\ pages[u].status_code = Some(200)
         /\ json_loads_page(session_file[1].pages[u]).status_code = Some(200)
         /\ json_loads_page(session_file[1].pages[u]).last_visit = pages[u].last_visit
         /\ now < pages[u].last_visit

\* the url is canonical: https, a host and a path, no query, no fragment
is_canonical(url) ==
    LET parts == urlparse(url) IN
    /\ parts.scheme = <<"h", "t", "t", "p", "s">>
    /\ parts.netloc # <<>>
    /\ parts.path # <<>>
    /\ \A i \in 1..Len(url) : url[i] \notin {"?", "#"}

\* C15 (as claimed): every key of the frontier is a canonical url, whether
\* it came from a link of a page, from the seed or from a sitemap.
C15_KeysCanonical == \A u \in DOMAIN pages : is_canonical(u)

\* C16: an href whose scheme or host is empty after the salvage and the
\* parsing is appended to the malformed list of the page being extracted,
\* add_link is not called for it (no new key, no wait, no HEAD), and no key
\* of the frontier is such a string: every key that enters the frontier has
\* a scheme and a host, and no listed href is a key.
C16_MalformedNeverKey ==
    [][ /\ (pc = "links" /\ hrefs # <<>> /\ Head(hrefs) # <<>> /\ ~sigint)
           => LET href == salvage(Head(hrefs))
                  parts == urlparse(href)
              IN  (parts.scheme = <<>> \/ parts.netloc = <<>>)
                  => /\ pages' = [pages EXCEPT ![target_url].malformed =
                                     Append(pages[target_url].malformed, href)]
                     /\ page_keys' = page_keys
                     /\ pc' = "links"
        /\ \A u \in DOMAIN pages' \ DOMAIN pages :
             urlparse(u).scheme # <<>> /\ urlparse(u).netloc # <<>>
        /\ \A v \in DOMAIN pages' :
             \A i \in 1..Len(pages'[v].malformed) :
                pages'[v].malformed[i] \notin DOMAIN pages'
      ]_vars

\* C16 witness: the extraction of a page met a malformed href, listed it
\* and went on with the next link
C16_Witness ==
    /\ pc = "links" /\ hrefs # <<>>
    /\ target_url \in DOMAIN pages
    /\ pages[target_url].malformed \in { << <<"a">> >>, << <<"m", ":", "b">> >> }
    /\ \A i \in 1..Len(hrefs) : hrefs[i] # <<"a">>

\* C17: extract_links sends its GET only for a page whose mime_type is an
\* HTML type, a page gets an HTML mime_type only from an answered HEAD probe
\* of its url (in this run, or in the run that left the session file), and
\* a HEAD probe that fails leaves the empty mime_type of the new record.
C17_GetOnlyAfterHtmlHead ==
    [][ /\ (pc = "extract_get" /\ ~waited')
           => /\ pages[target_url].mime_type = Some(TEXT_HTML)
              /\ pages[target_url].head_status # None
        /\ \A u \in DOMAIN pages' :
             (/\ pages'[u].mime_type = Some(TEXT_HTML)
              /\ (u \notin DOMAIN pages \/ pages[u].mime_type # Some(TEXT_HTML)))
             => \/ /\ pc = "add_link_head" /\ al_href = u
                   /\ last_req' = [method |-> "HEAD", url |-> u, after_wait |-> TRUE]
                   /\ last_outcome'.kind = "response"
                \/ /\ pc = "load_session" /\ session_file # NoFile
                   /\ session_file[1].pages[u].mime_type = <<"value", TEXT_HTML>>
        /\ (pc = "add_link_head" /\ ~waited' /\ last_outcome'.kind # "response")
           => pages'[al_href].mime_type = Some("")
      ]_vars

\* C17 witness: crawl() fetched a page and passed another url of the home
\* host to extract_links, which sent no GET for it because its HEAD probe
\* had failed or had named another type
C17_Witness ==
    /\ mode = "site" /\ pc = "crawl_loop"
    /\ extract_result = "skip_mime"
    /\ got # {}
    /\ target_url \in DOMAIN pages /\ target_url \notin got
    /\ pages[target_url].mime_type \in {Some(""), Some(IMAGE_PNG)}

\* the url is a key of pgs and its record is not expired
present_unexpired(pgs, href) ==
    href \in DOMAIN pgs /\ ~((now - cache_limit) > pgs[href].last_visit)

\* what add_link leaves alone when it does nothing: the keys, the limiter
\* and the requests
add_link_noop ==
    /\ page_keys' = page_keys
    /\ next_req' = next_req /\ last_wait' = last_wait
    /\ waited' = waited /\ last_req' = last_req
    /\ now' = now

\* C18: add_link on a url that is in the frontier and not expired does
\* nothing: no wait(), no HEAD, every page record as the caller passed it,
\* and control back at the caller (load_sitemap or extract_links).
C18_DiscoverIdempotent ==
    [][ sigint \/
        /\ (pc = "locs" /\ locs # <<>> /\ present_unexpired(pages, Head(locs)))
           => /\ pages' = pages
              /\ add_link_noop
              /\ pc' = "locs"
        /\ (pc = "links" /\ hrefs # <<>> /\ Head(hrefs) # <<>>
              /\ ~is_malformed(urlparse(salvage(Head(hrefs)))))
           => LET href == salvage(Head(hrefs))
                  parts == urlparse(href)
                  pgs == [pages EXCEPT ![target_url].links =
                            setdefault(@, strip_fragment(href, parts), clean_href(parts))]
              IN  present_unexpired(pgs, clean_href(parts))
                  => /\ pages' = pgs
                     /\ add_link_noop
                     /\ pc' = "links"
      ]_vars

\* C18 witness: the extraction of https://h/a met the link "/" to the home
\* page, which is in the frontier and fresh: its record is as it was and
\* the last request is still the GET of https://h/a
C18_Witness ==
    /\ cache_limit > 0
    /\ pc = "links" /\ hrefs = Tail(Body2)
    /\ target_url = host_prefix \o <<"/", "a">>
    /\ last_req.method = "GET" /\ last_req.url = target_url
    /\ base_url \in DOMAIN pages
    /\ pages[base_url].status_code = Some(200)
    /\ <<base_url, base_url>> \in pages[target_url].links

\* the links entries of the hrefs of a body that are not empty and not
\* malformed
links_of(body) ==
    { <<strip_fragment(salvage(body[i]), urlparse(salvage(body[i]))),
        clean_href(urlparse(salvage(body[i])))>> :
        i \in { k \in 1..Len(body) :
                  body[k] # <<>> /\ ~is_malformed(urlparse(salvage(body[k]))) } }

\* C19 (as claimed): while the links of a page answered with 200 are
\* handled its record keeps status_code 200, also when the page links to
\* itself and cache_limit is 0, and when the extraction is through its
\* links map holds the entry of every href of the body that is not malformed.
C19_ExtractedRecordKept ==
    [][ (pc = "links" /\ ~interrupted /\ ~interrupted')
        => /\ pages'[target_url].status_code = Some(200)
           /\ (hrefs = <<>> /\ pc' # pc)
              => links_of(body_of(target_url)) \subseteq pages[target_url].links
      ]_vars

\* s is a prefix of t
is_prefix(s, t) == Len(s) <= Len(t) /\ SubSeq(t, 1, Len(s)) = s

\* C20: in a run of crawl() no url gets a second GET: the keys of the
\* frontier are never removed or reordered, no key is there twice, the
\* key list of the loop only grows at its end and idx only moves forward.
C20_AtMostOneGet ==
    [][ /\ (mode = "site" /\ pc = "extract_get" /\ ~waited') => target_url \notin got
        /\ \A i, j \in 1..Len(page_keys') : page_keys'[i] = page_keys'[j] => i = j
        /\ { page_keys'[i] : i \in 1..Len(page_keys') } = DOMAIN pages'
        /\ (run' = run /\ pc # "load_session")
           => /\ is_prefix(page_keys, page_keys')
              /\ is_prefix(crawl_pages, crawl_pages')
              /\ idx' \in {idx, idx + 1}
      ]_vars

\* C20 witness: a crawl() ended in which a page linked back to a url that
\* was already in the frontier; every url it fetched it fetched once
C20_Witness ==
    /\ mode = "site" /\ pc = "save_session" /\ ~interrupted
    /\ Cardinality(got) >= 2
    /\ idx = Len(page_keys) /\ Len(page_keys) = Cardinality(DOMAIN pages)
    /\ \E u \in DOMAIN pages : u # base_url /\ <<base_url, base_url>> \in pages[u].links

=============================================================================
